---------------------------- MODULE Spec2Model ----------------------------
(***************************************************************************)
(* A model of code_analyzer.py, the static style-rule engine.              *)
(*                                                                         *)
(* Strings are sequences of one-character strings, so that splitting,      *)
(* trimming, searching and comparing are computed character by character   *)
(* as the Python string methods compute them.  An issue is the tuple       *)
(* <<line_number, message, file_path>> the code builds.                    *)
(***************************************************************************)
EXTENDS Integers, Sequences, FiniteSets, TLC

VARIABLES
    pc,             \* the position of the program in the specification at hand
    line,           \* SpecLine: the raw line handed to the line rules
    line_issues,    \* SpecLine: the issues the loop body of analyze_file appended
    lines,          \* SpecBlank: the line sequence of a file
    issue_lines,    \* SpecBlank: the result of has_more_than_two_blank_lines
    tree,           \* SpecTree: the parsed tree handed to check_function_defs
    tree_issues,    \* SpecTree: the result of check_function_defs
    path_kind,      \* Spec: what sys.argv[1] is: "dir", "file", "other", "missing"
    path,           \* Spec: sys.argv[1]
    walk,           \* Spec: the file names os.walk lists, in its order
    contents,       \* Spec: file path -> what the file holds
    visited,        \* Spec: how many names of walk analyze_directory has done
    all_issues,     \* Spec: the issues collected so far
    sorted_issues,  \* Spec: the local sorted_issues of print_issues
    output          \* Spec: the lines printed on standard output

lineVars == <<line, line_issues>>
blankVars == <<lines, issue_lines>>
treeVars == <<tree, tree_issues>>
mainVars ==
    <<path_kind, path, walk, contents, visited, all_issues, sorted_issues, output>>
vars == <<pc, lineVars, blankVars, treeVars, mainVars>>

---------------------------------------------------------------------------
(* Characters and the Python string methods the rules use.                 *)

\* Printable ASCII in code-point order, 32 (space) to 126 (~); the backslash
\* and the backtick, which no string of the model holds, keep their places.
Ascii ==
    <<" ", "!", "\"", "#", "$", "%", "&", "'", "(", ")", "*", "+", ",", "-",
      ".", "/", "0", "1", "2", "3", "4", "5", "6", "7", "8", "9", ":", ";",
      "<", "=", ">", "?", "@", "A", "B", "C", "D", "E", "F", "G", "H", "I",
      "J", "K", "L", "M", "N", "O", "P", "Q", "R", "S", "T", "U", "V", "W",
      "X", "Y", "Z", "[", "(backslash)", "]", "^", "_", "(backtick)", "a", "b", "c", "d", "e",
      "f", "g", "h", "i", "j", "k", "l", "m", "n", "o", "p", "q", "r", "s",
      "t", "u", "v", "w", "x", "y", "z", "{", "|", "}", "~">>

\* The code point of a character (tab is 9).
Ord ==
    [c \in {Ascii[i] : i \in 1..Len(Ascii)} \cup {"\t"} |->
        IF c = "\t" THEN 9
        ELSE 31 + (CHOOSE i \in 1..Len(Ascii) : Ascii[i] = c)]

UpperLetters == {Ascii[i] : i \in 34..59}
LowerLetters == {Ascii[i] : i \in 66..91}
Digits == {Ascii[i] : i \in 17..26}
\* [a-z0-9] of the two naming patterns
LowerAlnum == LowerLetters \cup Digits
\* \w of the class pattern
WordChars == LowerLetters \cup UpperLetters \cup Digits \cup {"_"}
\* what str.strip and \s take for white space, among the characters of a line
Whitespace == {" ", "\t"}

\* str.lower, one character
LowerChar(c) == IF c \in UpperLetters THEN Ascii[Ord[c] - 31 + 32] ELSE c

\* str.lower
lower(s) == [i \in 1..Len(s) |-> LowerChar(s[i])]

\* s[from:] with a 1-based first index
Drop(s, n) == SubSeq(s, n + 1, Len(s))

\* s[:n]
Take(s, n) == SubSeq(s, 1, n)

\* str.startswith
startswith(s, prefix) ==
    Len(prefix) <= Len(s) /\ Take(s, Len(prefix)) = prefix

\* str.endswith
endswith(s, suffix) ==
    Len(suffix) <= Len(s) /\ Drop(s, Len(s) - Len(suffix)) = suffix

\* sub in s
Contains(s, sub) ==
    \E i \in 0..(Len(s) - Len(sub)) : SubSeq(s, i + 1, i + Len(sub)) = sub

\* str.find of a single character: its first 1-based index, 0 when absent
Find(s, c) ==
    IF \E i \in 1..Len(s) : s[i] = c
    THEN CHOOSE i \in 1..Len(s) : s[i] = c /\ \A j \in 1..(i - 1) : s[j] # c
    ELSE 0

RECURSIVE rstrip(_)
\* str.rstrip(): trailing white space removed
rstrip(s) ==
    IF Len(s) > 0 /\ s[Len(s)] \in Whitespace
    THEN rstrip(Take(s, Len(s) - 1))
    ELSE s

RECURSIVE lstrip(_, _)
\* str.lstrip(chars): leading characters of the set chars removed
lstrip(s, chars) ==
    IF Len(s) > 0 /\ s[1] \in chars THEN lstrip(Drop(s, 1), chars) ELSE s

\* str.strip()
strip(s) == rstrip(lstrip(s, Whitespace))

\* str.split(sep, 1): at most one split, at the first separator
split1(s, sep) ==
    LET i == Find(s, sep)
    IN  IF i = 0 THEN <<s>> ELSE <<Take(s, i - 1), Drop(s, i)>>

RECURSIVE split(_, _)
\* str.split(sep): split at every separator
split(s, sep) ==
    LET i == Find(s, sep)
    IN  IF i = 0 THEN <<s>> ELSE <<Take(s, i - 1)>> \o split(Drop(s, i), sep)

RECURSIVE Concat(_)
\* "".join(parts)
Concat(parts) ==
    IF parts = <<>> THEN <<>> ELSE Head(parts) \o Concat(Tail(parts))

RECURSIVE Repeat(_, _)
\* s * n
Repeat(s, n) == IF n = 0 THEN <<>> ELSE s \o Repeat(s, n - 1)

\* The length of the longest prefix of s made of characters of the set chars.
RECURSIVE SpanLen(_, _)
SpanLen(s, chars) ==
    IF Len(s) > 0 /\ s[1] \in chars THEN 1 + SpanLen(Drop(s, 1), chars) ELSE 0

---------------------------------------------------------------------------
(* The message texts.                                                      *)

MsgS001 == <<"S", "0", "0", "1", " ", "T", "o", "o", " ", "l", "o", "n", "g">>
MsgS002 ==
    <<"S", "0", "0", "2", " ", "I", "n", "d", "e", "n", "t", "a", "t", "i", "o",
      "n", " ", "i", "s", " ", "n", "o", "t", " ", "a", " ", "m", "u", "l", "t",
      "i", "p", "l", "e", " ", "o", "f", " ", "f", "o", "u", "r">>
MsgS003 ==
    <<"S", "0", "0", "3", " ", "U", "n", "n", "e", "c", "e", "s", "s", "a", "r",
      "y", " ", "s", "e", "m", "i", "c", "o", "l", "o", "n">>
MsgS004 ==
    <<"S", "0", "0", "4", " ", "A", "t", " ", "l", "e", "a", "s", "t", " ", "t",
      "w", "o", " ", "s", "p", "a", "c", "e", "s", " ", "r", "e", "q", "u", "i",
      "r", "e", "d", " ", "b", "e", "f", "o", "r", "e", " ", "i", "n", "l", "i",
      "n", "e", " ", "c", "o", "m", "m", "e", "n", "t", "s">>
MsgS005 ==
    <<"S", "0", "0", "5", " ", "T", "O", "D", "O", " ", "f", "o", "u", "n", "d">>
MsgS006 ==
    <<"S", "0", "0", "6", " ", "M", "o", "r", "e", " ", "t", "h", "a", "n", " ",
      "t", "w", "o", " ", "b", "l", "a", "n", "k", " ", "l", "i", "n", "e", "s",
      " ", "u", "s", "e", "d">>
\* f"S007 Too many spaces after '{construction_name}'"
MsgS007(construction_name) ==
    <<"S", "0", "0", "7", " ", "T", "o", "o", " ", "m", "a", "n", "y", " ", "s",
      "p", "a", "c", "e", "s", " ", "a", "f", "t", "e", "r", " ", "'">>
    \o construction_name \o <<"'">>
\* f"S008 Class name '{class_name}' should use CamelCase"
MsgS008(class_name) ==
    <<"S", "0", "0", "8", " ", "C", "l", "a", "s", "s", " ", "n", "a", "m", "e",
      " ", "'">>
    \o class_name
    \o <<"'", " ", "s", "h", "o", "u", "l", "d", " ", "u", "s", "e", " ", "C",
         "a", "m", "e", "l", "C", "a", "s", "e">>
\* f"S009 Function name '{node.name}' should use snake_case"
MsgS009(name) ==
    <<"S", "0", "0", "9", " ", "F", "u", "n", "c", "t", "i", "o", "n", " ", "n",
      "a", "m", "e", " ", "'">>
    \o name
    \o <<"'", " ", "s", "h", "o", "u", "l", "d", " ", "u", "s", "e", " ", "s",
         "n", "a", "k", "e", "_", "c", "a", "s", "e">>
\* f"S010 Argument name '{arg.arg}' should be snake_case"
MsgS010(name) ==
    <<"S", "0", "1", "0", " ", "A", "r", "g", "u", "m", "e", "n", "t", " ", "n",
      "a", "m", "e", " ", "'">>
    \o name
    \o <<"'", " ", "s", "h", "o", "u", "l", "d", " ", "b", "e", " ", "s", "n",
         "a", "k", "e", "_", "c", "a", "s", "e">>
\* f"S011 Variable '{target.id}' in function should be snake_case"
MsgS011(name) ==
    <<"S", "0", "1", "1", " ", "V", "a", "r", "i", "a", "b", "l", "e", " ", "'">>
    \o name
    \o <<"'", " ", "i", "n", " ", "f", "u", "n", "c", "t", "i", "o", "n", " ",
         "s", "h", "o", "u", "l", "d", " ", "b", "e", " ", "s", "n", "a", "k",
         "e", "_", "c", "a", "s", "e">>
MsgS012 ==
    <<"S", "0", "1", "2", " ", "D", "e", "f", "a", "u", "l", "t", " ", "a", "r",
      "g", "u", "m", "e", "n", "t", " ", "v", "a", "l", "u", "e", " ", "i", "s",
      " ", "m", "u", "t", "a", "b", "l", "e">>

\* The rule code a message begins with: its first four characters.
CodeOf(message) == Take(message, 4)

---------------------------------------------------------------------------
(* The line rules.                                                         *)

is_line_too_long(line_of_code) == Len(rstrip(line_of_code)) > 79

is_indentation_not_multiple_of_four(line_of_code) ==
    LET leading_spaces == Len(line_of_code) - Len(lstrip(line_of_code, {" "}))
    IN  leading_spaces % 4 # 0 /\ leading_spaces # 0

has_unnecessary_semicolon(line_of_code) ==
    LET clean_line == rstrip(split1(line_of_code, "#")[1])
    IN  endswith(clean_line, <<";">>) /\ clean_line # <<";">>

has_less_than_two_spaces_before_inline_comment(line_of_code) ==
    IF Find(line_of_code, "#") # 0
    THEN LET parts == split1(line_of_code, "#")
         IN  /\ Len(parts[1]) # 0
             /\ ~endswith(parts[1], <<" ", " ">>)
             /\ ~endswith(parts[1], <<"\t">>)
    ELSE FALSE

has_todo_comment(line_of_code) ==
    LET comment_parts == split(line_of_code, "#")
    IN  IF Len(comment_parts) > 1
        THEN Contains(lower(comment_parts[2]), <<"t", "o", "d", "o">>)
        ELSE FALSE

KwClass == <<"c", "l", "a", "s", "s">>
KwDef == <<"d", "e", "f">>

\* re.match(r"\b<keyword>\s{2,}", s): the keyword at the start of s (the word
\* boundary holds there, the keyword starting with a letter), then two or more
\* white-space characters.
MatchKeywordSpaces(keyword, s) ==
    /\ startswith(s, keyword)
    /\ SpanLen(Drop(s, Len(keyword)), Whitespace) >= 2

\* The pair (fired, construction name) of the code; the name is <<>> for None.
check_too_many_spaces_after_construction_name(line_of_code) ==
    LET match_class == MatchKeywordSpaces(KwClass, line_of_code)
        match_def == MatchKeywordSpaces(KwDef, lstrip(line_of_code, Whitespace))
    IN  IF match_class THEN <<TRUE, KwClass>>
        ELSE IF match_def THEN <<TRUE, KwDef>>
        ELSE <<FALSE, <<>>>>

\* re.match(r"class\s+(\w+)", s): group 1, or <<>> when there is no match.
\* \s+ is greedy and \w+ needs a word character right after the white space
\* (giving white space back leaves a white-space character, never a word one),
\* so the group is the longest run of word characters after the whole run of
\* white space.
ClassMatch(s) ==
    LET rest == Drop(s, Len(KwClass))
        nspace == SpanLen(rest, Whitespace)
        after == Drop(rest, nspace)
        nword == SpanLen(after, WordChars)
    IN  IF startswith(s, KwClass) /\ nspace >= 1 /\ nword >= 1
        THEN Take(after, nword)
        ELSE <<>>

RECURSIVE CamelGroups(_, _)
\* ([a-z0-9]+[A-Z]?)*$ on s; in_group: at least one [a-z0-9] of the current
\* group has been read, so that the group may go on, be capped or end.
CamelGroups(s, in_group) ==
    IF s = <<>> THEN TRUE
    ELSE IF Head(s) \in LowerAlnum THEN CamelGroups(Tail(s), TRUE)
    ELSE IF Head(s) \in UpperLetters /\ in_group THEN CamelGroups(Tail(s), FALSE)
    ELSE FALSE

\* re.match(r'^[A-Z]([a-z0-9]+[A-Z]?)*$', name) is not None
is_camel_case(name) ==
    /\ Len(name) > 0
    /\ Head(name) \in UpperLetters
    /\ CamelGroups(Tail(name), FALSE)

RECURSIVE SnakeSegments(_, _)
\* [a-z0-9]+(_[a-z0-9]+)*_?$ on s; in_segment: at least one [a-z0-9] of the
\* current segment has been read.
SnakeSegments(s, in_segment) ==
    IF s = <<>> THEN in_segment
    ELSE IF Head(s) \in LowerAlnum THEN SnakeSegments(Tail(s), TRUE)
    ELSE IF Head(s) = "_" /\ in_segment
         THEN Tail(s) = <<>> \/ SnakeSegments(Tail(s), FALSE)
    ELSE FALSE

\* re.match(r'^_?[a-z0-9]+(_[a-z0-9]+)*_?$', name) is not None
is_snake_case(name) ==
    \/ SnakeSegments(name, FALSE)
    \/ Len(name) > 0 /\ Head(name) = "_" /\ SnakeSegments(Tail(name), FALSE)

\* The body of the loop of analyze_file over one line: the issues it appends,
\* in the order it appends them.
LineIssues(line_number, line_of_code, file_path) ==
    LET construction == check_too_many_spaces_after_construction_name(line_of_code)
        class_name == ClassMatch(line_of_code)
    IN  (IF is_line_too_long(line_of_code)
         THEN <<<<line_number, MsgS001, file_path>>>> ELSE <<>>)
        \o (IF is_indentation_not_multiple_of_four(line_of_code)
            THEN <<<<line_number, MsgS002, file_path>>>> ELSE <<>>)
        \o (IF has_unnecessary_semicolon(line_of_code)
            THEN <<<<line_number, MsgS003, file_path>>>> ELSE <<>>)
        \o (IF has_less_than_two_spaces_before_inline_comment(line_of_code)
            THEN <<<<line_number, MsgS004, file_path>>>> ELSE <<>>)
        \o (IF has_todo_comment(line_of_code)
            THEN <<<<line_number, MsgS005, file_path>>>> ELSE <<>>)
        \o (IF construction[1]
            THEN <<<<line_number, MsgS007(construction[2]), file_path>>>>
            ELSE <<>>)
        \o (IF class_name # <<>> /\ ~is_camel_case(class_name)
            THEN <<<<line_number, MsgS008(class_name), file_path>>>>
            ELSE <<>>)

---------------------------------------------------------------------------
(* SpecLine: the line rules on one line of text.                           *)

\* The longest line of SpecLine, in tokens.
MaxTokens == 4

\* The pieces the lines of SpecLine are made of.
LineTokens ==
    { <<"#">>, <<"t", "o">>, <<"d", "o">>, <<"D", "O">>, <<" ">>, <<";">>,
      <<"\"">>, <<"x">> }

RECURSIVE TokenSeqs(_)
\* The sequences of at most n tokens.
TokenSeqs(n) ==
    IF n = 0 THEN { <<>> }
    ELSE LET shorter == TokenSeqs(n - 1)
         IN  shorter \cup { Append(ts, t) : ts \in shorter, t \in LineTokens }

SampleLines == { Concat(ts) : ts \in TokenSeqs(MaxTokens) }

\* a.py
PathA == <<"a", ".", "p", "y">>

NoLine == line = <<>> /\ line_issues = <<>>
NoBlank == lines = <<>> /\ issue_lines = <<>>
NoTree == tree = <<>> /\ tree_issues = <<>>
NoMain ==
    /\ path_kind = "missing"
    /\ path = <<>>
    /\ walk = <<>>
    /\ contents = <<>>
    /\ visited = 0
    /\ all_issues = <<>>
    /\ sorted_issues = <<>>
    /\ output = <<>>

InitLine ==
    /\ pc = "line"
    /\ line \in SampleLines
    /\ line_issues = <<>>
    /\ NoBlank /\ NoTree /\ NoMain

\* One turn of the loop of analyze_file over the lines, on line number 1.
CheckLine ==
    /\ pc = "line"
    /\ line_issues' = LineIssues(1, line, PathA)
    /\ pc' = "line_done"
    /\ UNCHANGED <<line, blankVars, treeVars, mainVars>>

NextLine == CheckLine

SpecLine == InitLine /\ [][NextLine]_vars

\* issues holds an issue with this message
HasMessage(issues, message) == \E i \in 1..Len(issues) : issues[i][2] = message

Todo == <<"t", "o", "d", "o">>

\* C5: S005 fires on a line if and only if the line holds a '#' and the whole
\* text after the first '#' holds "todo", whatever the case of its letters; so
\* it fires when "todo" stands only after a second '#'.
S005WholeComment ==
    pc = "line_done" =>
        (HasMessage(line_issues, MsgS005)
            <=> /\ Find(line, "#") # 0
                /\ Contains(lower(Drop(line, Find(line, "#"))), Todo))

RECURSIVE CommentStart(_, _, _)
\* The 1-based index of the first '#' of s that stands outside a string literal,
\* Len(s) + 1 when there is none; i is the index read next, quote the quote
\* character of the literal that is open ("" outside a literal).
CommentStart(s, i, quote) ==
    IF i > Len(s) THEN i
    ELSE IF quote = "" /\ s[i] = "#" THEN i
    ELSE IF quote = "" /\ s[i] \in {"\"", "'"} THEN CommentStart(s, i + 1, s[i])
    ELSE IF quote # "" /\ s[i] = quote THEN CommentStart(s, i + 1, "")
    ELSE CommentStart(s, i + 1, quote)

\* C8: S003 fires on a line if and only if the text left after removing the
\* trailing comment (from the first '#' that is not inside a string literal)
\* and then the trailing white space ends with a semicolon and is not only a
\* semicolon.
S003OutsideLiterals ==
    pc = "line_done" =>
        (HasMessage(line_issues, MsgS003)
            <=> LET remaining == rstrip(Take(line, CommentStart(line, 1, "") - 1))
                IN  endswith(remaining, <<";">>) /\ remaining # <<";">>)

---------------------------------------------------------------------------
(* SpecBlank: the blank-run rule on the line sequence of a file.           *)

RECURSIVE BlankLoopOnTwo(_, _, _, _)
\* The loop with the threshold off by one: a run of two blank lines fires.
BlankLoopOnTwo(lines_, i, blank_line_count, found) ==
    IF i >= Len(lines_) THEN found
    ELSE IF strip(lines_[i + 1]) = <<>>
         THEN BlankLoopOnTwo(lines_, i + 1, blank_line_count + 1, found)
    ELSE IF blank_line_count >= 2
         THEN BlankLoopOnTwo(lines_, i + 1, 0,
                  Append(found, i - blank_line_count + blank_line_count + 1))
    ELSE BlankLoopOnTwo(lines_, i + 1, 0, found)

has_more_than_two_blank_lines_on_two(lines_) == BlankLoopOnTwo(lines_, 0, 0, <<>>)

RECURSIVE BlankLoop(_, _, _, _)
\* The loop of has_more_than_two_blank_lines from its turn i (0-based, as
\* enumerate counts) on, with the count and the list it has so far.
BlankLoop(lines_, i, blank_line_count, found) ==
    IF i >= Len(lines_) THEN found
    ELSE IF strip(lines_[i + 1]) = <<>>
         THEN BlankLoop(lines_, i + 1, blank_line_count + 1, found)
    ELSE IF blank_line_count > 2
         THEN BlankLoop(lines_, i + 1, 0,
                  Append(found, i - blank_line_count + blank_line_count + 1))
    ELSE BlankLoop(lines_, i + 1, 0, found)

has_more_than_two_blank_lines(lines_) == BlankLoop(lines_, 0, 0, <<>>)

\* The longest file of SpecBlank, in lines.
MaxLines == 8

\* The lines of SpecBlank: an empty one, one of white space only, one of code.
BlankSampleLines == { <<>>, <<" ", "\t">>, <<"x">> }

RECURSIVE LineSeqs(_)
\* The files of at most n lines.
LineSeqs(n) ==
    IF n = 0 THEN { <<>> }
    ELSE LET shorter == LineSeqs(n - 1)
         IN  shorter \cup { Append(ls, l) : ls \in shorter, l \in BlankSampleLines }

InitBlank ==
    /\ pc = "blank"
    /\ lines \in LineSeqs(MaxLines)
    /\ issue_lines = <<>>
    /\ NoLine /\ NoTree /\ NoMain

\* analyze_file, line 177: the blank-run rule over the lines of the file.
CheckBlankRuns ==
    /\ pc = "blank"
    /\ issue_lines' = has_more_than_two_blank_lines(lines)
    /\ pc' = "blank_done"
    /\ UNCHANGED <<lines, lineVars, treeVars, mainVars>>

NextBlank == CheckBlankRuns

SpecBlank == InitBlank /\ [][NextBlank]_vars

\* line number n of the file is blank: empty once its white space is trimmed
IsBlankLine(n) == \A k \in 1..Len(lines[n]) : lines[n][k] \in Whitespace

\* lines a..b are a maximal run of blank lines
IsBlankRun(a, b) ==
    /\ 1 <= a /\ a <= b /\ b <= Len(lines)
    /\ \A n \in a..b : IsBlankLine(n)
    /\ a = 1 \/ ~IsBlankLine(a - 1)
    /\ b = Len(lines) \/ ~IsBlankLine(b + 1)

\* The line numbers right after a maximal run of more than two blank lines.
LinesAfterLongRuns ==
    { b + 1 : b \in { c \in 1..(Len(lines) - 1) :
                        \E a \in 1..c : IsBlankRun(a, c) /\ c - a + 1 > 2 } }

\* C3: has_more_than_two_blank_lines returns exactly the 1-based numbers of the
\* non-blank lines that come right after a maximal run of more than two blank
\* lines, each once and in increasing order; a run of two and a run that ends
\* the file give nothing.
BlankRunContract ==
    pc = "blank_done" =>
        /\ { issue_lines[k] : k \in 1..Len(issue_lines) } = LinesAfterLongRuns
        /\ \A k \in 1..(Len(issue_lines) - 1) : issue_lines[k] < issue_lines[k + 1]
        /\ \A k \in 1..Len(issue_lines) : ~IsBlankLine(issue_lines[k])

\* A file with two long runs, each followed by code, has been scanned: three
\* blank lines, code, three blank lines, code.
BlankRunWitness ==
    /\ pc = "blank_done"
    /\ Len(lines) = 8
    /\ issue_lines = <<4, 8>>

---------------------------------------------------------------------------
(* The parsed tree and the tree rules.                                     *)
(*                                                                         *)
(* A tree is the sequence of its statement nodes in source order; node i   *)
(* names its parent by index, 0 being the Module.  Expression nodes hold   *)
(* no statement, so ast.walk meets FunctionDef and Assign nodes in the     *)
(* order a walk over the statement nodes alone meets them.  A node is a    *)
(* record with the fields of ast the rules read:                           *)
(*   type         "FunctionDef", "Assign" or "If"                          *)
(*   parent       index of the enclosing statement, 0 for the Module       *)
(*   lineno       the line the statement starts on                         *)
(*   name         FunctionDef.name                                         *)
(*   args         FunctionDef.args.args: the names of the positional       *)
(*                arguments (arg.arg; arg.lineno is the line of the def)   *)
(*   defaults     FunctionDef.args.defaults: node types of the defaults    *)
(*   kw_defaults  FunctionDef.args.kw_defaults: node types of the defaults *)
(*                of the keyword-only arguments                            *)
(*   targets      Assign.targets: records [type, id, elts]                 *)
(***************************************************************************)

NodeType(tree_, i) == IF i = 0 THEN "Module" ELSE tree_[i].type

RECURSIVE SortedSeq(_)
\* The numbers of a set in increasing order.
SortedSeq(S) ==
    IF S = {} THEN <<>>
    ELSE LET m == CHOOSE x \in S : \A y \in S : x <= y
         IN  <<m>> \o SortedSeq(S \ {m})

\* ast.iter_child_nodes, the statements only, in source order
ChildNodes(tree_, i) == SortedSeq({ j \in 1..Len(tree_) : tree_[j].parent = i })

RECURSIVE WalkQueue(_, _)
\* The loop of ast.walk: pop the first node of the queue, put its children at
\* the end, yield it.
WalkQueue(tree_, todo) ==
    IF todo = <<>> THEN <<>>
    ELSE <<Head(todo)>> \o WalkQueue(tree_, Tail(todo) \o ChildNodes(tree_, Head(todo)))

\* ast.walk(node): node and its descendants, breadth first
ast_walk(tree_, node) == WalkQueue(tree_, <<node>>)

NameTarget(id) == [type |-> "Name", id |-> id, elts |-> <<>>]
TupleTarget(elts) == [type |-> "Tuple", id |-> <<>>, elts |-> elts]

RECURSIVE check_function_args_from(_, _, _, _)
check_function_args_from(tree_, node, k, filepath) ==
    IF k > Len(tree_[node].args) THEN <<>>
    ELSE (IF ~is_snake_case(tree_[node].args[k])
          THEN << <<tree_[node].lineno, MsgS010(tree_[node].args[k]), filepath>> >>
          ELSE <<>>)
         \o check_function_args_from(tree_, node, k + 1, filepath)

check_function_args(tree_, node, filepath) ==
    check_function_args_from(tree_, node, 1, filepath)

RECURSIVE TargetIssues(_, _, _)
\* The loop over body_node.targets: one issue for each target that is a Name
\* whose id is not snake_case.
TargetIssues(targets, lineno, filepath) ==
    IF targets = <<>> THEN <<>>
    ELSE (IF Head(targets).type = "Name" /\ ~is_snake_case(Head(targets).id)
          THEN << <<lineno, MsgS011(Head(targets).id), filepath>> >>
          ELSE <<>>)
         \o TargetIssues(Tail(targets), lineno, filepath)

RECURSIVE BodyVariableIssues(_, _, _)
\* The loop over ast.walk(node).
BodyVariableIssues(tree_, walked, filepath) ==
    IF walked = <<>> THEN <<>>
    ELSE (IF NodeType(tree_, Head(walked)) = "Assign"
          THEN TargetIssues(tree_[Head(walked)].targets,
                            tree_[Head(walked)].lineno, filepath)
          ELSE <<>>)
         \o BodyVariableIssues(tree_, Tail(walked), filepath)

RECURSIVE SingleTargetIssues(_, _, _)
\* The loop over ast.walk(node) that passes over an assignment with several
\* targets.
SingleTargetIssues(tree_, walked, filepath) ==
    IF walked = <<>> THEN <<>>
    ELSE (IF /\ NodeType(tree_, Head(walked)) = "Assign"
             /\ Len(tree_[Head(walked)].targets) = 1
          THEN TargetIssues(tree_[Head(walked)].targets,
                            tree_[Head(walked)].lineno, filepath)
          ELSE <<>>)
         \o SingleTargetIssues(tree_, Tail(walked), filepath)

check_function_body_single_target(tree_, node, filepath) ==
    SingleTargetIssues(tree_, ast_walk(tree_, node), filepath)

check_function_body_for_variables(tree_, node, filepath) ==
    BodyVariableIssues(tree_, ast_walk(tree_, node), filepath)

MutableLiterals == {"List", "Dict", "Set"}

RECURSIVE MutableDefaultIssues(_, _, _)
\* The loop over node.args.defaults.
MutableDefaultIssues(defaults, lineno, filepath) ==
    IF defaults = <<>> THEN <<>>
    ELSE (IF Head(defaults) \in MutableLiterals
          THEN << <<lineno, MsgS012, filepath>> >>
          ELSE <<>>)
         \o MutableDefaultIssues(Tail(defaults), lineno, filepath)

check_mutable_default_arguments(tree_, node, filepath) ==
    MutableDefaultIssues(tree_[node].defaults, tree_[node].lineno, filepath)

Dunder == <<"_", "_">>

RECURSIVE FunctionDefIssues(_, _, _)
\* The loop of check_function_defs over ast.walk(tree).
FunctionDefIssues(tree_, walked, filepath) ==
    IF walked = <<>> THEN <<>>
    ELSE LET node == Head(walked)
         IN  (IF NodeType(tree_, node) = "FunctionDef"
              THEN (IF /\ ~(startswith(tree_[node].name, Dunder)
                            /\ endswith(tree_[node].name, Dunder))
                       /\ ~is_snake_case(tree_[node].name)
                    THEN << <<tree_[node].lineno, MsgS009(tree_[node].name),
                              filepath>> >>
                    ELSE <<>>)
                   \o check_function_args(tree_, node, filepath)
                   \o check_function_body_for_variables(tree_, node, filepath)
                   \o check_mutable_default_arguments(tree_, node, filepath)
              ELSE <<>>)
             \o FunctionDefIssues(tree_, Tail(walked), filepath)

check_function_defs(tree_, filepath) ==
    FunctionDefIssues(tree_, ast_walk(tree_, 0), filepath)

---------------------------------------------------------------------------
(* SpecTree: the tree rules on a parsed tree.                              *)

\* The largest tree of SpecTree, in statement nodes.
MaxNodes == 3

NoFields ==
    [name |-> <<>>, args |-> <<>>, defaults |-> <<>>, kw_defaults |-> <<>>,
     targets |-> <<>>]

\* The function declarations of SpecTree:
\*   def f():                  def f(a=[]):           def f(a={}, b={1}):
\*   def f(*, k=[]):           def f(a=make(), b=c):  def Bad(A):
FunctionShapes ==
    { [NoFields EXCEPT !.name = <<"f">>],
      [NoFields EXCEPT !.name = <<"f">>, !.args = << <<"a">> >>,
                       !.defaults = <<"List">>],
      [NoFields EXCEPT !.name = <<"f">>, !.args = << <<"a">>, <<"b">> >>,
                       !.defaults = <<"Dict", "Set">>],
      [NoFields EXCEPT !.name = <<"f">>, !.kw_defaults = <<"List">>],
      [NoFields EXCEPT !.name = <<"f">>, !.args = << <<"a">>, <<"b">> >>,
                       !.defaults = <<"Call", "Name">>],
      [NoFields EXCEPT !.name = <<"B", "a", "d">>, !.args = << <<"A">> >>] }

\* The assignments of SpecTree:
\*   x = 1        X = 1        a = B = 1        X, y = 1, 2
AssignShapes ==
    { [NoFields EXCEPT !.targets = <<NameTarget(<<"x">>)>>],
      [NoFields EXCEPT !.targets = <<NameTarget(<<"X">>)>>],
      [NoFields EXCEPT !.targets = <<NameTarget(<<"a">>), NameTarget(<<"B">>)>>],
      [NoFields EXCEPT !.targets = <<TupleTarget(<< <<"X">>, <<"y">> >>)>>] }

MakeNode(type, parent, lineno, fields) ==
    [type |-> type, parent |-> parent, lineno |-> lineno, name |-> fields.name,
     args |-> fields.args, defaults |-> fields.defaults,
     kw_defaults |-> fields.kw_defaults, targets |-> fields.targets]

RECURSIVE Enclosing(_, _)
\* The statements that enclose node i, the nearest first (the Module left out).
Enclosing(tree_, i) ==
    IF i = 0 \/ tree_[i].parent = 0 THEN <<>>
    ELSE <<tree_[i].parent>> \o Enclosing(tree_, tree_[i].parent)

\* The blocks a statement written after the last one of tree_ may stand in: the
\* Module, the last statement if it opens a block, and the blocks around it.
OpenBlocks(tree_) ==
    IF tree_ = <<>> THEN {0}
    ELSE LET last == Len(tree_)
             chain == <<last>> \o Enclosing(tree_, last)
         IN  {0} \cup { chain[k] : k \in { n \in 1..Len(chain) :
                            tree_[chain[n]].type \in {"FunctionDef", "If"} } }

\* The statements that may stand on line lineno of a tree of n statements at
\* most: any shape, in any block opened before.
NodesAt(lineno) ==
    { MakeNode("FunctionDef", p, lineno, f) : p \in 0..(lineno - 1), f \in FunctionShapes }
    \cup { MakeNode("Assign", p, lineno, a) : p \in 0..(lineno - 1), a \in AssignShapes }
    \cup { MakeNode("If", p, lineno, NoFields) : p \in 0..(lineno - 1) }

RECURSIVE TreesOfSize(_)
\* The trees of n statements, one to a line: each statement stands in the
\* Module or in a block that is still open where it is written.
TreesOfSize(n) ==
    IF n = 0 THEN { <<>> }
    ELSE { Append(tn[1], tn[2]) :
             tn \in { c \in TreesOfSize(n - 1) \X NodesAt(n) :
                        c[2].parent \in OpenBlocks(c[1]) } }

InitTree ==
    /\ pc = "tree"
    /\ \E n \in 0..MaxNodes : tree \in TreesOfSize(n)
    /\ tree_issues = <<>>
    /\ NoLine /\ NoBlank /\ NoMain

\* analyze_code_with_ast once ast.parse has given the tree.
CheckTree ==
    /\ pc = "tree"
    /\ tree_issues' = check_function_defs(tree, PathA)
    /\ pc' = "tree_done"
    /\ UNCHANGED <<tree, lineVars, blankVars, mainVars>>

NextTree == CheckTree

SpecTree == InitTree /\ [][NextTree]_vars

\* how many times issue stands in issues
Count(issues, issue) == Cardinality({ k \in 1..Len(issues) : issues[k] = issue })

\* how many elements of the sequence s are in the set S
CountIn(s, S) == Cardinality({ k \in 1..Len(s) : s[k] \in S })

\* node i stands in the body of a function
InFunction(i) ==
    \E k \in 1..Len(Enclosing(tree, i)) : tree[Enclosing(tree, i)[k]].type = "FunctionDef"

AssignNodes == { i \in 1..Len(tree) : tree[i].type = "Assign" }
FunctionNodes == { i \in 1..Len(tree) : tree[i].type = "FunctionDef" }

\* the S011 issues among the issues found, as a set
S011Issues ==
    { tree_issues[k] : k \in { n \in 1..Len(tree_issues) :
                                 CodeOf(tree_issues[n][2]) = <<"S", "0", "1", "1">> } }

\* the targets of node i that are plain names failing snake_case
BadNameTargets(i) ==
    { k \in 1..Len(tree[i].targets) :
        tree[i].targets[k].type = "Name" /\ ~is_snake_case(tree[i].targets[k].id) }

\* node i is a simple assignment: one target, a plain name
IsSimpleAssign(i) ==
    Len(tree[i].targets) = 1 /\ tree[i].targets[1].type = "Name"

\* C6 as claimed: S011 fires only for simple assignments inside a function: an
\* assignment with several targets or a destructured target gives no S011
\* issue, and every simple assignment with a name that fails snake_case inside
\* a function gives one.
S011OnlySimpleAssignments ==
    pc = "tree_done" =>
        \A i \in AssignNodes :
            /\ ~IsSimpleAssign(i) => \A issue \in S011Issues : issue[1] # tree[i].lineno
            /\ IsSimpleAssign(i) /\ InFunction(i) /\ BadNameTargets(i) # {}
                   => \E issue \in S011Issues : issue[1] = tree[i].lineno

\* C6 as amended: the S011 issues are those of the plain-name targets that fail
\* snake_case, of the assignments inside a function, whether the assignment has
\* one target or several; a destructured target and an assignment outside any
\* function give none.
S011EveryNameTarget ==
    pc = "tree_done" =>
        S011Issues =
            UNION { { <<tree[i].lineno, MsgS011(tree[i].targets[k].id), PathA>> :
                        k \in BadNameTargets(i) } :
                    i \in { a \in AssignNodes : InFunction(a) } }

\* A chained assignment a = B = 1 and a destructuring X, y = 1, 2 in a function
\* have been checked, and the chained one gave an issue.
S011Witness ==
    /\ pc = "tree_done"
    /\ \E i, j \in AssignNodes :
        /\ InFunction(i) /\ Len(tree[i].targets) = 2
        /\ InFunction(j) /\ tree[j].targets[1].type = "Tuple"
        /\ <<tree[i].lineno, MsgS011(<<"B">>), PathA>> \in S011Issues

\* C10: each offending assignment is reported by S011 exactly once, however
\* many function declarations enclose it.
S011OncePerAssignment ==
    pc = "tree_done" =>
        \A i \in AssignNodes : \A k \in BadNameTargets(i) :
            InFunction(i) =>
                Count(tree_issues,
                      <<tree[i].lineno, MsgS011(tree[i].targets[k].id), PathA>>) = 1

\* C7: S012 fires once for every default that is a list, mapping or set
\* literal, be the argument positional or keyword-only, at the line of the
\* function, and for no other default: k such defaults give exactly k issues.
S012EveryMutableDefault ==
    pc = "tree_done" =>
        \A i \in FunctionNodes :
            Count(tree_issues, <<tree[i].lineno, MsgS012, PathA>>)
                = CountIn(tree[i].defaults, MutableLiterals)
                    + CountIn(tree[i].kw_defaults, MutableLiterals)

---------------------------------------------------------------------------
(* The file analyzer and the report.                                       *)

\* str.splitlines for text whose only line break is "\n": the pieces between
\* the breaks, without the empty piece after a final break.
splitlines(code) ==
    LET parts == split(code, "\n")
    IN  IF parts[Len(parts)] = <<>> THEN Take(parts, Len(parts) - 1) ELSE parts

RECURSIVE LinesLoop(_, _, _)
\* The loop of analyze_file over enumerate(lines, start=1), from line_number on.
LinesLoop(lines_, line_number, file_path) ==
    IF line_number > Len(lines_) THEN <<>>
    ELSE LineIssues(line_number, lines_[line_number], file_path)
         \o LinesLoop(lines_, line_number + 1, file_path)

\* analyze_file, lines 177 to 181: one S006 issue for each line number found.
BlankRunIssues(lines_, file_path) ==
    LET excessive_blank_lines == has_more_than_two_blank_lines(lines_)
    IN  [k \in 1..Len(excessive_blank_lines) |->
            <<excessive_blank_lines[k], MsgS006, file_path>>]

\* The issues analyze_file has collected when it reaches the tree rules.
LineLevelIssues(code, file_path) ==
    LinesLoop(splitlines(code), 1, file_path)
    \o BlankRunIssues(splitlines(code), file_path)

\* What a call gives: the exception flag and, when it returns, the issues.
Raised == [raised |-> TRUE, issues |-> <<>>]
Returned(issues) == [raised |-> FALSE, issues |-> issues]

\* ast.parse(code): the parser is not part of the program; a file of the model
\* carries what the parser makes of its text, a tree or a SyntaxError.
analyze_code_with_ast(file, filepath) ==
    IF file.parse = "SyntaxError" THEN Raised
    ELSE Returned(check_function_defs(file.tree, filepath))

\* analyze_file: open and read raise on a file that cannot be read, and the
\* exception of ast.parse passes through, the issues collected so far with it.
analyze_file(file, file_path) ==
    IF ~file.readable THEN Raised
    ELSE LET issues == LineLevelIssues(file.code, file_path)
             tree_result == analyze_code_with_ast(file, file_path)
         IN  IF tree_result.raised THEN Raised
             ELSE Returned(issues \o tree_result.issues)

RECURSIVE StrLess(_, _)
\* s < t for Python strings: by code point, a proper prefix first
StrLess(s, t) ==
    IF t = <<>> THEN FALSE
    ELSE IF s = <<>> THEN TRUE
    ELSE IF Head(s) = Head(t) THEN StrLess(Tail(s), Tail(t))
    ELSE Ord[Head(s)] < Ord[Head(t)]

\* a < b for the tuples (str, int, str) the sort key gives
KeyLess(a, b) ==
    \/ StrLess(a[1], b[1])
    \/ a[1] = b[1] /\ a[2] < b[2]
    \/ a[1] = b[1] /\ a[2] = b[2] /\ StrLess(a[3], b[3])

\* A key of the line number alone.
IssueKeyLineOnly(x) == << <<>>, x[1], <<>> >>

\* A key without the message.
IssueKeyNoMessage(x) == <<x[3], x[1], <<>> >>

\* lambda x: (x[2], x[0], x[1]): file path, line number, message
IssueKey(x) == <<x[3], x[1], x[2]>>

RECURSIVE InsertSorted(_, _)
\* x put into the sorted sequence s after every element that is not greater.
InsertSorted(s, x) ==
    IF s = <<>> THEN <<x>>
    ELSE IF KeyLess(IssueKey(x), IssueKey(Head(s))) THEN <<x>> \o s
    ELSE <<Head(s)>> \o InsertSorted(Tail(s), x)

RECURSIVE SortFrom(_, _)
SortFrom(done, rest) ==
    IF rest = <<>> THEN done
    ELSE SortFrom(InsertSorted(done, Head(rest)), Tail(rest))

\* sorted(issues, key=...): the stable sort, equal keys in their first order
sorted(issues) == SortFrom(<<>>, issues)

RECURSIVE IntToStr(_)
\* str(n) for n >= 0
IntToStr(n) ==
    IF n < 10 THEN <<Ascii[17 + n]>>
    ELSE IntToStr(n \div 10) \o <<Ascii[17 + (n % 10)]>>

\* os.getcwd(): /w
Cwd == <<"/", "w">>

\* The components of a path: the pieces between the slashes that are not empty.
PathParts(p) == SelectSeq(split(p, "/"), LAMBDA part : part # <<>>)

\* os.path.abspath for a path that holds no "." or ".." component
abspath(p) == IF startswith(p, <<"/">>) THEN p ELSE Cwd \o <<"/">> \o p

RECURSIVE CommonPrefixLen(_, _)
CommonPrefixLen(a, b) ==
    IF a # <<>> /\ b # <<>> /\ Head(a) = Head(b)
    THEN 1 + CommonPrefixLen(Tail(a), Tail(b))
    ELSE 0

RECURSIVE JoinPath(_)
\* os.path.join of a non-empty list of relative components
JoinPath(parts) ==
    IF Len(parts) = 1 THEN parts[1]
    ELSE parts[1] \o <<"/">> \o JoinPath(Tail(parts))

\* os.path.relpath(file_path, start=os.getcwd())
relpath(file_path) ==
    LET start_list == PathParts(abspath(Cwd))
        path_list == PathParts(abspath(file_path))
        i == CommonPrefixLen(start_list, path_list)
        rel_list == [k \in 1..(Len(start_list) - i) |-> <<".", ".">>]
                    \o Drop(path_list, i)
    IN  IF rel_list = <<>> THEN <<".">> ELSE JoinPath(rel_list)

\* f"{relative_path}: Line {line_number}: {message}"
Render(issue) ==
    relpath(issue[3]) \o <<":", " ", "L", "i", "n", "e", " ">>
    \o IntToStr(issue[1]) \o <<":", " ">> \o issue[2]

\* The lines print_issues prints for its sorted issues.
RenderAll(issues) == [k \in 1..Len(issues) |-> Render(issues[k])]

---------------------------------------------------------------------------
(* Spec: a run of the program on a directory or on a file.                 *)

\* How many names os.walk lists at most.
MaxFiles == 3

\* def Bad(A):
\*     X = 1;  # todo
GoodCode ==
    <<"d", "e", "f", " ", "B", "a", "d", "(", "A", ")", ":", "\n", " ",
      " ", " ", " ", "X", " ", "=", " ", "1", ";", " ", " ", "#", " ",
      "t", "o", "d", "o", "\n">>

GoodFile ==
    [readable |-> TRUE, code |-> GoodCode, parse |-> "Module",
     tree |-> << MakeNode("FunctionDef", 0, 1,
                     [NoFields EXCEPT !.name = <<"B", "a", "d">>,
                                      !.args = << <<"A">> >>]),
                 MakeNode("Assign", 1, 2,
                     [NoFields EXCEPT !.targets = <<NameTarget(<<"X">>)>>]) >>]

\* x = 1;
\* (three blank lines)
\* def (:
BrokenCode ==
    <<"x", " ", "=", " ", "1", ";", "\n", "\n", "\n", "\n", "d", "e", "f",
      " ", "(", ":", "\n">>

BrokenFile ==
    [readable |-> TRUE, code |-> BrokenCode, parse |-> "SyntaxError", tree |-> <<>>]

\* A file open() or read() fails on.
UnreadableFile ==
    [readable |-> FALSE, code |-> <<>>, parse |-> "Module", tree |-> <<>>]

\* def f():
\*   def g():
\*     X = 1 # x
NestedCode ==
    <<"d", "e", "f", " ", "f", "(", ")", ":", "\n", " ", " ", "d", "e",
      "f", " ", "g", "(", ")", ":", "\n", " ", " ", " ", " ", "X", " ",
      "=", " ", "1", " ", "#", " ", "x", "\n">>

NestedFile ==
    [readable |-> TRUE, code |-> NestedCode, parse |-> "Module",
     tree |-> << MakeNode("FunctionDef", 0, 1, [NoFields EXCEPT !.name = <<"f">>]),
                 MakeNode("FunctionDef", 1, 2, [NoFields EXCEPT !.name = <<"g">>]),
                 MakeNode("Assign", 2, 3,
                     [NoFields EXCEPT !.targets = <<NameTarget(<<"X">>)>>]) >>]

\* (a name of 80 letters x)
\* (three blank lines)
\* class  myClass:
\*     pass
ClassCode ==
    Repeat(<<"x">>, 80)
    \o <<"\n", "\n", "\n", "\n", "c", "l", "a", "s", "s", " ", " ", "m",
         "y", "C", "l", "a", "s", "s", ":", "\n", " ", " ", " ", " ", "p",
         "a", "s", "s", "\n">>

ClassFile ==
    [readable |-> TRUE, code |-> ClassCode, parse |-> "Module",
     tree |-> << MakeNode("Expr", 0, 1, NoFields),
                 MakeNode("ClassDef", 0, 5, [NoFields EXCEPT !.name =
                     <<"m", "y", "C", "l", "a", "s", "s">>]),
                 MakeNode("Pass", 2, 6, NoFields) >>]

SampleFiles == { GoodFile, BrokenFile, UnreadableFile, NestedFile, ClassFile }

\* a.py, b.py, c.py and n.txt
SourceNames ==
    { <<"a", ".", "p", "y">>, <<"b", ".", "p", "y">>, <<"c", ".", "p", "y">> }
OtherNames == { <<"n", ".", "t", "x", "t">> }

\* What sys.argv[1] may be: p, /w/p (the same directory) and /v (outside the
\* working directory).
Roots == { <<"p">>, <<"/", "w", "/", "p">>, <<"/", "v">> }

\* os.path.join(root, file) for a root that does not end with a slash
join(root, file) == root \o <<"/">> \o file

DotPy == <<".", "p", "y">>

RECURSIVE Listings(_)
\* The sequences of at most n distinct file names.
Listings(n) ==
    IF n = 0 THEN { <<>> }
    ELSE LET shorter == Listings(n - 1)
         IN  shorter
             \cup { Append(l, name) : <<l, name>> \in
                      { ln \in shorter \X (SourceNames \cup OtherNames) :
                          \A k \in 1..Len(ln[1]) : ln[1][k] # ln[2] } }

\* The files of a directory: a source file holds any of the sample files, the
\* text file, which is never opened, a fixed one.
DirectoryContents(root, listing) ==
    { c \in [ { join(root, listing[k]) : k \in 1..Len(listing) } -> SampleFiles ] :
        \A name \in OtherNames :
            join(root, name) \in DOMAIN c => c[join(root, name)] = BrokenFile }

Init ==
    /\ pc = "main"
    /\ path_kind \in {"dir", "file", "other", "missing"}
    /\ \/ /\ path_kind = "dir"
          /\ path \in Roots
          /\ walk \in Listings(MaxFiles)
          /\ contents \in DirectoryContents(path, walk)
       \/ /\ path_kind = "file"
          /\ path \in { join(root, name) : root \in Roots, name \in SourceNames }
          /\ walk = <<>>
          /\ contents \in [ {path} -> SampleFiles ]
       \/ /\ path_kind = "other"
          /\ path \in Roots
          /\ walk = <<>>
          /\ contents = <<>>
       \/ /\ path_kind = "missing"
          /\ path = <<>>
          /\ walk = <<>>
          /\ contents = <<>>
    /\ visited = 0
    /\ all_issues = <<>>
    /\ sorted_issues = <<>>
    /\ output = <<>>
    /\ NoLine /\ NoBlank /\ NoTree

otherVars == <<lineVars, blankVars, treeVars>>

UsageText ==
    <<"U", "s", "a", "g", "e", ":", " ", "p", "y", "t", "h", "o", "n",
      " ", "c", "o", "d", "e", "_", "a", "n", "a", "l", "y", "z", "e",
      "r", ".", "p", "y", " ", "<", "p", "a", "t", "h", "-", "t", "o",
      "-", "p", "y", "t", "h", "o", "n", "-", "f", "i", "l", "e", "-",
      "o", "r", "-", "d", "i", "r", "e", "c", "t", "o", "r", "y", ">">>

\* f"Error: {path} is neither a file nor a directory"
ErrorText(p) ==
    <<"E", "r", "r", "o", "r", ":", " ">> \o p
    \o <<" ", "i", "s", " ", "n", "e", "i", "t", "h", "e", "r", " ", "a",
         " ", "f", "i", "l", "e", " ", "n", "o", "r", " ", "a", " ", "d",
         "i", "r", "e", "c", "t", "o", "r", "y">>

\* __main__ with no argument (or several): the usage text, exit status 1.
MainUsage ==
    /\ pc = "main" /\ path_kind = "missing"
    /\ output' = <<UsageText>>
    /\ pc' = "exit1"
    /\ UNCHANGED <<path_kind, path, walk, contents, visited, all_issues,
                   sorted_issues, otherVars>>

\* __main__ on a path that is neither a file nor a directory: exit status 1.
MainOther ==
    /\ pc = "main" /\ path_kind = "other"
    /\ output' = <<ErrorText(path)>>
    /\ pc' = "exit1"
    /\ UNCHANGED <<path_kind, path, walk, contents, visited, all_issues,
                   sorted_issues, otherVars>>

\* __main__ on a file: issues = analyze_file(path); an exception of
\* analyze_file is caught nowhere and ends the program.
MainFile ==
    /\ pc = "main" /\ path_kind = "file"
    /\ LET result == analyze_file(contents[path], path)
       IN  IF result.raised
           THEN pc' = "raised" /\ UNCHANGED all_issues
           ELSE pc' = "print" /\ all_issues' = result.issues
    /\ UNCHANGED <<path_kind, path, walk, contents, visited, sorted_issues,
                   output, otherVars>>

\* __main__ on a directory: analyze_directory starts with all_issues = [].
MainDirectory ==
    /\ pc = "main" /\ path_kind = "dir"
    /\ all_issues' = <<>>
    /\ pc' = "walk"
    /\ UNCHANGED <<path_kind, path, walk, contents, visited, sorted_issues,
                   output, otherVars>>

\* analyze_directory: a turn of the loop on a name that does not end in .py.
WalkSkip ==
    /\ pc = "walk" /\ visited < Len(walk)
    /\ ~endswith(walk[visited + 1], DotPy)
    /\ visited' = visited + 1
    /\ UNCHANGED <<pc, path_kind, path, walk, contents, all_issues,
                   sorted_issues, output, otherVars>>

\* analyze_directory: a turn of the loop on a name that ends in .py; an
\* exception of analyze_file is caught neither here nor in __main__.
WalkAnalyze ==
    /\ pc = "walk" /\ visited < Len(walk)
    /\ endswith(walk[visited + 1], DotPy)
    /\ LET file_path == join(path, walk[visited + 1])
           file_issues == analyze_file(contents[file_path], file_path)
       IN  IF file_issues.raised
           THEN pc' = "raised" /\ UNCHANGED <<visited, all_issues>>
           ELSE /\ all_issues' = all_issues \o file_issues.issues
                /\ visited' = visited + 1
                /\ pc' = "walk"
    /\ UNCHANGED <<path_kind, path, walk, contents, sorted_issues, output,
                   otherVars>>

\* analyze_directory returns all_issues.
WalkReturn ==
    /\ pc = "walk" /\ visited = Len(walk)
    /\ pc' = "print"
    /\ UNCHANGED <<path_kind, path, walk, contents, visited, all_issues,
                   sorted_issues, output, otherVars>>

\* print_issues(issues)
PrintIssues ==
    /\ pc = "print"
    /\ sorted_issues' = sorted(all_issues)
    /\ output' = RenderAll(sorted(all_issues))
    /\ pc' = "done"
    /\ UNCHANGED <<path_kind, path, walk, contents, visited, all_issues,
                   otherVars>>

Next ==
    \/ MainUsage
    \/ MainOther
    \/ MainFile
    \/ MainDirectory
    \/ WalkSkip
    \/ WalkAnalyze
    \/ WalkReturn
    \/ PrintIssues

Spec == Init /\ [][Next]_vars

---------------------------------------------------------------------------
(* The claims about a run.                                                 *)

\* The program has ended: it printed the report, or an exception ended it.
Ended == pc \in {"done", "raised"}

\* The file paths analyze_directory builds for the names that end in .py.
EligiblePaths ==
    { join(path, walk[k]) : k \in { n \in 1..Len(walk) : endswith(walk[n], DotPy) } }

\* The file paths analyze_file has been called on.
AnalysedPaths ==
    IF path_kind = "file" THEN {path}
    ELSE { join(path, walk[k]) :
             k \in { n \in 1..Len(walk) :
                       /\ endswith(walk[n], DotPy)
                       /\ n <= visited + (IF pc = "raised" THEN 1 ELSE 0) } }

\* the line Render(issue) has been printed
Reported(issue) == \E k \in 1..Len(output) : output[k] = Render(issue)

\* C1: for a file whose text does not parse, analyze_file still delivers the
\* line-level issues of the file (S001 to S008): they are in the report.
LineIssuesSurviveParseFailure ==
    Ended =>
        \A p \in AnalysedPaths :
            contents[p].readable /\ contents[p].parse = "SyntaxError" =>
                LET found == LineLevelIssues(contents[p].code, p)
                IN  \A k \in 1..Len(found) : Reported(found[k])

\* C2: in a directory, a file that cannot be read or does not parse does not
\* keep the issues of the other files out of the report, wherever it comes in
\* the traversal.
FailuresAreFileScoped ==
    Ended /\ path_kind = "dir" =>
        \A p \in EligiblePaths :
            LET result == analyze_file(contents[p], p)
            IN  ~result.raised =>
                    \A k \in 1..Len(result.issues) : Reported(result.issues[k])

\* a comes before b by (file path, line number, message)
Precedes(a, b) ==
    \/ StrLess(a[3], b[3])
    \/ a[3] = b[3] /\ a[1] < b[1]
    \/ a[3] = b[3] /\ a[1] = b[1] /\ StrLess(a[2], b[2])

\* C4: the lines print_issues prints are those of the issues it was given, each
\* as many times as it was given, in ascending order of (file path, line
\* number, message): in a file by line number, on a line by rule code.
ReportIsSortedPermutation ==
    pc = "done" =>
        /\ Len(sorted_issues) = Len(all_issues)
        /\ \A k \in 1..Len(all_issues) :
              Count(sorted_issues, all_issues[k]) = Count(all_issues, all_issues[k])
        /\ Len(output) = Len(sorted_issues)
        /\ \A k \in 1..Len(sorted_issues) : output[k] = Render(sorted_issues[k])
        /\ \A k \in 1..(Len(sorted_issues) - 1) :
              LET a == sorted_issues[k]
                  b == sorted_issues[k + 1]
              IN  /\ ~Precedes(b, a)
                  /\ a[3] = b[3] => a[1] <= b[1]
                  /\ a[3] = b[3] /\ a[1] = b[1]
                         => ~StrLess(CodeOf(b[2]), CodeOf(a[2]))

\* A report has been printed for issues of two files that were collected out of
\* order and hold the same issue twice.
ReportWitness ==
    /\ pc = "done"
    /\ \E j, k \in 1..Len(all_issues) :
          /\ j < k
          /\ Precedes(all_issues[k], all_issues[j])
          /\ all_issues[j][3] # all_issues[k][3]
    /\ \E k \in 1..Len(all_issues) : Count(all_issues, all_issues[k]) = 2

\* The orders the eligible names of walk may be visited in.
TraversalOrders ==
    LET eligible == SelectSeq(walk, LAMBDA name : endswith(name, DotPy))
        n == Len(eligible)
    IN  { [k \in 1..n |-> eligible[q[k]]] :
            q \in { f \in [1..n -> 1..n] : \A i, j \in 1..n : i # j => f[i] # f[j] } }

RECURSIVE IssuesInOrder(_)
\* The issues of the files of a traversal that meets no failure, file by file.
IssuesInOrder(names) ==
    IF names = <<>> THEN <<>>
    ELSE analyze_file(contents[join(path, Head(names))], join(path, Head(names))).issues
         \o IssuesInOrder(Tail(names))

\* C9: the report depends on the contents of the files only: whatever the order
\* the files of a directory are visited in, the same lines are printed.
ReportIgnoresTraversalOrder ==
    pc = "done" /\ path_kind = "dir" =>
        \A names \in TraversalOrders :
            output = RenderAll(sorted(IssuesInOrder(names)))

\* A report has been printed for a directory of three source files with issues
\* on the same line numbers.
TraversalWitness ==
    /\ pc = "done" /\ path_kind = "dir"
    /\ Cardinality(EligiblePaths) = 3
    /\ \E j, k \in 1..Len(all_issues) :
          /\ all_issues[j][3] # all_issues[k][3]
          /\ all_issues[j][1] = all_issues[k][1]

=============================================================================
